---- MODULE Spec2Model ----
(***************************************************************************)
(* BoxPushingEnv (minigrid/envs/boxpushing.py): a grid world in which the  *)
(* agent turns, moves forward and pushes boxes onto coloured goal squares. *)
(* The state is the environment object's fields; reset and step are the    *)
(* two operations.  ret holds what the last call returned or raised.       *)
(***************************************************************************)
EXTENDS Integers, Sequences, FiniteSets

VARIABLES grid, agent_pos, agent_dir, step_count, success_boxes_num,
          every_box_step_count, max_steps, required_boxes_num, colored, ret

vars == <<grid, agent_pos, agent_dir, step_count, success_boxes_num,
          every_box_step_count, max_steps, required_boxes_num, colored, ret>>

(***************************************************************************)
(* Configuration and bounds                                                *)
(***************************************************************************)
\* __init__(size=8): the grid is size x size
size == 8

\* step is explored while step_count and every_box_step_count are below this
MaxCount == 8

\* max_steps is drawn from {1, MaxMaxSteps}
MaxMaxSteps == 8

\* the long episode is explored while step_count is below this
MaxCountLong == 17

\* required_boxes_num is drawn from 0 .. MaxRequired
MaxRequired == 2

\* step is called with the actions 0 .. MaxAction (0, 1, 2 are left, right, forward)
MaxAction == 3

\* self.actions: the three actions step accepts
left == 0
right == 1
forward == 2

width == size
height == size

Cells == (0 .. width - 1) \X (0 .. height - 1)

Max(a, b) == IF a >= b THEN a ELSE b

(***************************************************************************)
(* World objects (minigrid.core.world_object)                              *)
(***************************************************************************)
None == [type |-> "empty", color |-> "none"]
Wall == [type |-> "wall", color |-> "grey"]
ColoredGoal(c) == [type |-> "goal", color |-> c]
Box(c) == [type |-> "box", color |-> c]

\* Goal.can_overlap is True; Wall and Box keep WorldObj's False
can_overlap(cell) == cell.type = "goal"

\* self.color_box as __init__ sets it from its colored argument
ColorBoxOf(c) ==
    IF c THEN <<"yellow", "green", "blue", "red">>
    ELSE <<"green", "green", "green", "green">>

\* self.color_box
color_box == ColorBoxOf(colored)

(***************************************************************************)
(* Grid (minigrid.core.grid)                                               *)
(***************************************************************************)
InBounds(p) == p[1] >= 0 /\ p[1] < width /\ p[2] >= 0 /\ p[2] < height

\* Grid keeps its cells in one list, cell (i, j) at index j * width + i
Index(p) == p[2] * width + p[1] + 1

\* Grid.get: only called on in-bounds positions by the step model below
GridGet(g, p) == g[Index(p)]

\* Grid.set
GridSet(g, p, v) == [g EXCEPT ![Index(p)] = v]

\* Grid(width, height) followed by wall_rect(0, 0, width, height)
wall_rect ==
    [k \in 1 .. width * height |->
        LET i == (k - 1) % width
            j == (k - 1) \div width
        IN IF i = 0 \/ i = width - 1 \/ j = 0 \/ j = height - 1
           THEN Wall ELSE None]

\* DIR_TO_VEC: 0 right, 1 down, 2 left, 3 up
dir_vec(d) ==
    CASE d = 0 -> <<1, 0>>
      [] d = 1 -> <<0, 1>>
      [] d = 2 -> <<-1, 0>>
      [] OTHER -> <<0, -1>>

Add(p, v) == <<p[1] + v[1], p[2] + v[2]>>

front_pos == Add(agent_pos, dir_vec(agent_dir))

(***************************************************************************)
(* _gen_grid                                                               *)
(***************************************************************************)
\* the four corner goals, in the order of color_box
GoalPos ==
    << <<width - 2, height - 2>>, <<1, 1>>, <<width - 2, 1>>, <<1, height - 2>> >>

\* outcomes of np.random.choice((width-4)*(height-4), 4, replace=False) explored
BoxDraws == { <<15, 0, 3, 2>>, <<0, 15, 3, 2>> }

\* box_pos[i] from box_pos_idx[i]
BoxPos(idx) == <<(idx \div (width - 4)) + 2, (idx % (width - 4)) + 2>>

\* outcomes of place_agent explored: position and direction
AgentDraws ==
    { <<<<2, 3>>, 3>>, <<<<4, 5>>, 0>>, <<<<2, 1>>, 2>> }

RECURSIVE PutAll(_, _, _)
\* put_obj for each object of a sequence of <<position, object>> pairs, in order
PutAll(g, objs, i) ==
    IF i > Len(objs) THEN g
    ELSE PutAll(GridSet(g, objs[i][1], objs[i][2]), objs, i + 1)

\* the grid _gen_grid builds for a colour list and a draw of box_pos_idx
GenGrid(colors, draw) ==
    LET goals == [i \in 1 .. 4 |-> <<GoalPos[i], ColoredGoal(colors[i])>>]
        boxes == [i \in 1 .. 4 |-> <<BoxPos(draw[i]), Box(colors[i])>>]
    IN PutAll(wall_rect, goals \o boxes, 1)

\* one long episode starts from this draw
LongBoxDraws == { <<0, 4, 10, 15>> }

\* GenGrid, tabulated over the modes and the draws explored
GenGrids ==
    [c \in BOOLEAN |->
        [draw \in BoxDraws \cup LongBoxDraws |-> GenGrid(ColorBoxOf(c), draw)]]

gen_grid(draw) == GenGrids[colored][draw]

(***************************************************************************)
(* Results of a call                                                       *)
(***************************************************************************)
\* rewards are exact rationals num / den
Rat(n, d) == [num |-> n, den |-> d]

\* action is the argument of a step call (-1 for reset); path records which
\* branch of the call ran: "reset", "turn", "walk" (the agent entered the cell
\* in front), "stay" (it could not), "push" (a box moved), "blocked" (a box did
\* not move), "match" (a box moved and matched), "raise"
Returned(call, action, path, reward, terminated, truncated) ==
    [call |-> call, action |-> action, path |-> path, raised |-> "none",
     reward |-> reward, terminated |-> terminated, truncated |-> truncated]

Raised(action, what) ==
    [call |-> "step", action |-> action, path |-> "raise", raised |-> what,
     reward |-> Rat(0, 1), terminated |-> FALSE, truncated |-> FALSE]

(***************************************************************************)
(* reset                                                                   *)
(***************************************************************************)
\* MiniGridEnv.reset: regenerate the grid, place the agent, step_count = 0
SuperReset(boxDraws, agentDraws) ==
    /\ \E draw \in boxDraws :
          /\ grid' = gen_grid(draw)
          /\ \E a \in agentDraws :
                /\ GridGet(grid', a[1]) = None
                /\ agent_pos' = a[1]
                /\ agent_dir' = a[2]
    /\ step_count' = 0

Reset ==
    /\ success_boxes_num' = 0
    /\ SuperReset(BoxDraws, AgentDraws)
    /\ ret' = Returned("reset", -1, "reset", Rat(0, 1), FALSE, FALSE)
    /\ UNCHANGED <<every_box_step_count, max_steps, required_boxes_num, colored>>

(***************************************************************************)
(* step                                                                    *)
(***************************************************************************)
\* the episode counts as solved once enough boxes have matched
IsSuccessAtLeast(s) == s >= required_boxes_num

is_success(s) == s = required_boxes_num

\* the penalty counts the steps before this one only
RewardStale(c) ==
    IF 10 * max_steps - 9 * (c - 1) > 0
    THEN Rat(10 * max_steps - 9 * (c - 1), 10 * max_steps)
    ELSE Rat(0, 1)

\* max(0, 1 - 0.9 * (c / max_steps)), c the value of every_box_step_count
_reward(c) ==
    IF 10 * max_steps - 9 * c > 0
    THEN Rat(10 * max_steps - 9 * c, 10 * max_steps)
    ELSE Rat(0, 1)

\* the agent enters empty cells only, not goals
AgentCanEnterEmptyOnly(fwd_cell) == fwd_cell = None

\* the agent enters any cell that is not a wall
AgentCanEnterNonWall(fwd_cell) == fwd_cell.type # "wall"

\* line 212: the agent may enter the cell in front
AgentCanEnter(fwd_cell) == fwd_cell = None \/ can_overlap(fwd_cell)

\* a box is pushed into any cell whatever it holds
BoxCanMoveAnywhere(new_fwd_cell) == TRUE

\* a box is pushed into any cell but a wall
BoxCanMoveOntoBox(new_fwd_cell) == new_fwd_cell.type # "wall"

\* a box is pushed into empty cells only
BoxCanMoveToEmpty(new_fwd_cell) == new_fwd_cell = None

\* line 217: the box may move to the cell beyond it
BoxCanMove(new_fwd_cell) == new_fwd_cell = None \/ can_overlap(new_fwd_cell)

\* any goal matches, whatever its colour
IsMatchAnyColor(fwd_cell, new_fwd_cell) ==
    /\ new_fwd_cell # None
    /\ new_fwd_cell.type = "goal"

\* line 223: the box is pushed against a goal of its colour
IsMatch(fwd_cell, new_fwd_cell) ==
    /\ new_fwd_cell # None
    /\ new_fwd_cell.type = "goal"
    /\ new_fwd_cell.color = fwd_cell.color

\* the timeout is measured from the last match
IsTruncatedPerBox(sc) ==
    sc >= max_steps * required_boxes_num
    /\ every_box_step_count + 1 >= max_steps * required_boxes_num

\* the limit itself is not yet a timeout
IsTruncatedStrict(sc) == sc > max_steps * required_boxes_num

\* line 235
IsTruncated(sc) == sc >= max_steps * required_boxes_num

\* the terminal bonus does not replace the reward of the match
FinishKeepReward(action, path, g, pos, dir, sc, s, eb, reward) ==
    /\ grid' = g
    /\ agent_pos' = pos
    /\ agent_dir' = dir
    /\ step_count' = sc
    /\ success_boxes_num' = s
    /\ every_box_step_count' = eb
    /\ ret' = Returned("step", action, path,
                       IF is_success(s) /\ reward = Rat(0, 1) THEN Rat(10, 1)
                       ELSE reward,
                       is_success(s), IsTruncated(sc))

\* lines 231-243: the end of step, from the values the action left
Finish(action, path, g, pos, dir, sc, s, eb, reward) ==
    /\ grid' = g
    /\ agent_pos' = pos
    /\ agent_dir' = dir
    /\ step_count' = sc
    /\ success_boxes_num' = s
    /\ every_box_step_count' = eb
    /\ ret' = Returned("step", action, path,
                       IF is_success(s) THEN Rat(10, 1) ELSE reward,
                       is_success(s), IsTruncated(sc))

\* an exception leaves the fields as they are at the raise
Raise(action, what, g, pos, dir, sc, s, eb) ==
    /\ grid' = g
    /\ agent_pos' = pos
    /\ agent_dir' = dir
    /\ step_count' = sc
    /\ success_boxes_num' = s
    /\ every_box_step_count' = eb
    /\ ret' = Raised(action, what)

\* the direction is not wrapped below 0
TurnLeftNoWrap(d) == d - 1

\* lines 201-204
TurnLeft(d) == IF d - 1 < 0 THEN d - 1 + 4 ELSE d - 1

\* line 208
TurnRight(d) == (d + 1) % 4

\* lines 211-226
Forward(action, sc, eb, fwd_pos, fwd_cell) ==
    LET enter == AgentCanEnter(fwd_cell)
        pos1 == IF enter THEN fwd_pos ELSE agent_pos
    IN IF fwd_cell.type # "box"
       THEN Finish(action, IF enter THEN "walk" ELSE "stay", grid, pos1,
                   agent_dir, sc, success_boxes_num, eb, Rat(0, 1))
       ELSE LET new_box_obs == Add(fwd_pos, dir_vec(agent_dir))
            IN IF ~InBounds(new_box_obs)
               THEN Raise(action, "AssertionError", grid, pos1, agent_dir, sc,
                          success_boxes_num, eb)
               ELSE LET new_fwd_cell == GridGet(grid, new_box_obs)
                        moved == BoxCanMove(new_fwd_cell)
                        g2 == IF moved
                              THEN GridSet(GridSet(grid, new_box_obs, fwd_cell),
                                           fwd_pos, None)
                              ELSE grid
                        pos2 == IF moved THEN fwd_pos ELSE pos1
                        match == IsMatch(fwd_cell, new_fwd_cell)
                    IN Finish(action,
                              IF moved THEN (IF match THEN "match" ELSE "push")
                              ELSE "blocked",
                              g2, pos2, agent_dir, sc,
                              IF match THEN success_boxes_num + 1
                              ELSE success_boxes_num,
                              IF match THEN 0 ELSE eb,
                              IF match THEN _reward(eb) ELSE Rat(0, 1))

\* any other action is accepted and does nothing
UnknownActionIgnored(action, sc, eb) ==
    Finish(action, "stay", grid, agent_pos, agent_dir, sc, success_boxes_num,
           eb, Rat(0, 1))

\* lines 228-229
UnknownAction(action, sc, eb) ==
    Raise(action, "ValueError", grid, agent_pos, agent_dir, sc,
          success_boxes_num, eb)

\* lines 186-243
StepBody(action) ==
    /\ UNCHANGED <<max_steps, required_boxes_num, colored>>
    /\ LET sc == step_count + 1
           eb == every_box_step_count + 1
           fwd_pos == front_pos
       IN IF ~InBounds(fwd_pos)
          THEN Raise(action, "AssertionError", grid, agent_pos, agent_dir, sc,
                     success_boxes_num, eb)
          ELSE LET fwd_cell == GridGet(grid, fwd_pos)
               IN CASE action = left ->
                         Finish(action, "turn", grid, agent_pos,
                                TurnLeft(agent_dir), sc, success_boxes_num, eb,
                                Rat(0, 1))
                    [] action = right ->
                         Finish(action, "turn", grid, agent_pos,
                                TurnRight(agent_dir), sc, success_boxes_num, eb,
                                Rat(0, 1))
                    [] action = forward -> Forward(action, sc, eb, fwd_pos, fwd_cell)
                    [] OTHER -> UnknownAction(action, sc, eb)

\* a step call, explored while both counters are below MaxCount
Step(action) ==
    /\ step_count < MaxCount
    /\ every_box_step_count < MaxCount
    /\ StepBody(action)

(***************************************************************************)
(* Specification                                                           *)
(***************************************************************************)
\* __init__ followed by the first reset
InitWith(boxDraws, agentDraws) ==
    /\ success_boxes_num = 0
    /\ every_box_step_count = 0
    /\ step_count = 0
    /\ \E draw \in boxDraws :
          /\ grid = gen_grid(draw)
          /\ \E a \in agentDraws :
                /\ GridGet(grid, a[1]) = None
                /\ agent_pos = a[1]
                /\ agent_dir = a[2]
    /\ ret = Returned("reset", -1, "reset", Rat(0, 1), FALSE, FALSE)

Init ==
    /\ colored \in BOOLEAN
    /\ required_boxes_num \in 0 .. MaxRequired
    /\ max_steps \in {1, MaxMaxSteps}
    /\ InitWith(BoxDraws, AgentDraws)

Next ==
    \/ Reset
    \/ \E action \in 0 .. MaxAction : Step(action)

Spec == Init /\ [][Next]_vars

(***************************************************************************)
(* One long episode of valid actions that requires a single box: the agent *)
(* keeps stepping after the episode has terminated.                        *)
(***************************************************************************)
LongAgentDraws == { <<<<3, 3>>, 3>> }

InitLong ==
    /\ colored = FALSE
    /\ required_boxes_num = 1
    /\ max_steps = MaxMaxSteps
    /\ InitWith(LongBoxDraws, LongAgentDraws)

StepLong(action) ==
    /\ step_count < MaxCountLong
    /\ StepBody(action)

NextLong == \E action \in left .. forward : StepLong(action)

SpecLong == InitLong /\ [][NextLong]_vars

(***************************************************************************)
(* Properties                                                              *)
(***************************************************************************)
\* the cell beyond the one in front of the agent
beyond_pos == Add(front_pos, dir_vec(agent_dir))

StepReturned == ret.call = "step" /\ ret.raised = "none"

\* the number of cells of g holding a goal
GoalCells(g) == Cardinality({k \in 1 .. width * height : g[k].type = "goal"})

\* C1: after reset and after any steps all four goals are in the grid, each in
\* its corner cell and nowhere else; no step removes or overwrites a goal.
CexC1_GoalsPresent ==
    /\ \A i \in 1 .. 4 : GridGet(grid, GoalPos[i]) = ColoredGoal(color_box[i])
    /\ GoalCells(grid) = 4

\* the agent faces a box and the cell beyond it holds a goal of the box's colour
FacingBoxBeforeMatchingGoal ==
    /\ GridGet(grid, front_pos).type = "box"
    /\ InBounds(beyond_pos)
    /\ GridGet(grid, beyond_pos) = ColoredGoal(GridGet(grid, front_pos).color)

\* r is max(0, 1 - 0.9 * c / max_steps), compared by cross-multiplication
IsShapedReward(r, c) ==
    r.num * (10 * max_steps) = r.den * Max(0, 10 * max_steps - 9 * c)

\* C2: MoveForward facing a box with a goal of the box's colour beyond it moves
\* the box onto the goal cell and the agent into the cell the box left, adds 1
\* to success_boxes_num, resets every_box_step_count to 0 and, unless the match
\* completes the episode, returns max(0, 1 - 0.9 * c / max_steps) for c the
\* incremented every_box_step_count.
ThmC2_MatchStep ==
    [][(Step(forward) /\ FacingBoxBeforeMatchingGoal) =>
         /\ ret'.raised = "none"
         /\ GridGet(grid', beyond_pos) = GridGet(grid, front_pos)
         /\ GridGet(grid', front_pos) = None
         /\ agent_pos' = front_pos
         /\ success_boxes_num' = success_boxes_num + 1
         /\ every_box_step_count' = 0
         /\ (success_boxes_num' # required_boxes_num =>
                IsShapedReward(ret'.reward, every_box_step_count + 1))]_vars

\* a match step has returned a shaped reward strictly between 0 and 1
WitC2_ShapedRewardReturned ==
    /\ StepReturned /\ ret.action = forward
    /\ every_box_step_count = 0
    /\ success_boxes_num = 1
    /\ required_boxes_num > 1
    /\ ret.reward.num > 0 /\ ret.reward.num < ret.reward.den
    /\ GridGet(grid, front_pos).type = "box"

\* the state right after the single match of an episode that requires one box
AfterSingleMatch ==
    /\ required_boxes_num = 1
    /\ success_boxes_num = 1
    /\ StepReturned
    /\ every_box_step_count = 0

\* C3: a step that ends with success_boxes_num = required_boxes_num returns
\* terminated = True and reward 10, the shaped reward replaced; with
\* required_boxes_num = 1 so does the step that follows the single match.
ThmC3_TerminalBonus ==
    /\ [](StepReturned /\ success_boxes_num = required_boxes_num =>
             ret.terminated /\ ret.reward = Rat(10, 1))
    /\ [][(AfterSingleMatch /\ \E a \in left .. forward : Step(a)) =>
             ret'.terminated /\ ret'.reward = Rat(10, 1)]_vars

\* the step after the single match has returned the bonus again
WitC3_StepAfterSingleMatch ==
    /\ required_boxes_num = 1
    /\ success_boxes_num = 1
    /\ StepReturned
    /\ every_box_step_count = 1
    /\ ret.terminated
    /\ ret.reward = Rat(10, 1)

\* C4: a step returns truncated = True and terminated = False whenever
\* step_count (incremented) >= max_steps * required_boxes_num and
\* success_boxes_num # required_boxes_num; no step below that limit returns
\* truncated = True.
ThmC4_Truncation ==
    StepReturned =>
        /\ (step_count >= max_steps * required_boxes_num
             /\ success_boxes_num # required_boxes_num
               => ret.truncated /\ ~ret.terminated)
        /\ (step_count < max_steps * required_boxes_num => ~ret.truncated)

\* the step on which step_count reaches the limit has returned truncated
WitC4_LimitReached ==
    /\ StepReturned
    /\ required_boxes_num > 0
    /\ step_count = max_steps * required_boxes_num
    /\ success_boxes_num # required_boxes_num
    /\ ret.truncated /\ ~ret.terminated

\* C5: in every reachable state, also after steps that follow a step that
\* returned terminated = True, success_boxes_num <= required_boxes_num.
CexC5_SuccessBounded == success_boxes_num <= required_boxes_num

\* C6: a step leaves success_boxes_num unchanged or adds exactly 1 to it, and
\* adds 1 only when it relocates a box onto a goal cell of the box's colour.
ThmC6_MatchOnlyOnRelocation ==
    [][ret'.call = "step" =>
         \/ success_boxes_num' = success_boxes_num
         \/ /\ success_boxes_num' = success_boxes_num + 1
            /\ ret'.action = forward
            /\ FacingBoxBeforeMatchingGoal
            /\ GridGet(grid', beyond_pos) = GridGet(grid, front_pos)
            /\ GridGet(grid', front_pos) = None]_vars

\* in coloured mode a box rests on the corner of its own colour after a match
WitC6_BoxOnOwnGoal ==
    /\ colored
    /\ ret.path = "match"
    /\ success_boxes_num = 1
    /\ \E i \in 1 .. 4 : GridGet(grid, GoalPos[i]) = Box(color_box[i])

\* C7: right after every reset step_count, success_boxes_num and
\* every_box_step_count are all 0.
CexC7_ResetIsFresh ==
    ret.call = "reset" =>
        /\ step_count = 0
        /\ success_boxes_num = 0
        /\ every_box_step_count = 0

\* C8: a step with an action outside {left, right, forward} fails with an
\* unknown-action error, leaves grid, agent position, agent direction and
\* success_boxes_num unchanged, and adds exactly 1 to step_count and to
\* every_box_step_count.
ThmC8_UnknownAction ==
    [][\A a \in forward + 1 .. MaxAction :
          Step(a) =>
            /\ ret'.raised = "ValueError"
            /\ grid' = grid
            /\ agent_pos' = agent_pos
            /\ agent_dir' = agent_dir
            /\ success_boxes_num' = success_boxes_num
            /\ step_count' = step_count + 1
            /\ every_box_step_count' = every_box_step_count + 1]_vars

\* a step has been rejected after earlier steps moved a box
WitC8_Rejected ==
    /\ ret.raised = "ValueError"
    /\ ret.action > forward
    /\ step_count > 1
    /\ \E i \in 1 .. 4 : GridGet(grid, GoalPos[i]).type = "box"

Colors == {"yellow", "green", "blue", "red"}

\* the number of cells of g holding a box of colour c
BoxCells(g, c) == Cardinality({k \in 1 .. width * height : g[k] = Box(c)})

\* the number of boxes of colour c that reset places
BoxesPlaced(c) == Cardinality({i \in 1 .. 4 : color_box[i] = c})

\* C9: the grid always holds exactly the four boxes placed at reset, colour by
\* colour, and a step never moves a box into a cell that holds a box or a wall.
ThmC9_BoxesConserved ==
    /\ [](\A c \in Colors : BoxCells(grid, c) = BoxesPlaced(c))
    /\ [][ret'.call = "step" =>
             \/ grid' = grid
             \/ \A k \in 1 .. width * height :
                   grid'[k].type = "box" /\ grid'[k] # grid[k] =>
                       grid[k].type \notin {"box", "wall"}]_vars

\* a push has moved a box off the cells where reset places boxes, and the
\* next push was stopped by another box
WitC9_PushedAndStopped ==
    /\ ret.path = "blocked"
    /\ GridGet(grid, beyond_pos).type = "box"
    /\ \E k \in 1 .. width * height :
          /\ grid[k].type = "box"
          /\ \/ (k - 1) % width \in {1, width - 2}
             \/ (k - 1) \div width \in {1, height - 2}

OnBorder(p) ==
    p[1] = 0 \/ p[1] = width - 1 \/ p[2] = 0 \/ p[2] = height - 1

\* C10: the border ring holds only walls (so no box), a MoveForward that
\* pushes a box toward the border leaves box and agent unmoved, and no step
\* reads a cell outside the grid.
ThmC10_BorderHolds ==
    /\ [](/\ \A p \in Cells : OnBorder(p) => GridGet(grid, p) = Wall
          /\ ret.raised # "AssertionError"
          /\ InBounds(front_pos)
          /\ (GridGet(grid, front_pos).type = "box" => InBounds(beyond_pos)))
    /\ [][(Step(forward) /\ GridGet(grid, front_pos).type = "box"
                          /\ OnBorder(beyond_pos)) =>
             grid' = grid /\ agent_pos' = agent_pos]_vars

\* a push toward the border has been stopped
WitC10_StoppedAtBorder ==
    /\ ret.path = "blocked"
    /\ OnBorder(beyond_pos)
    /\ GridGet(grid, beyond_pos) = Wall

\* C11: TurnLeft maps the direction d to (d - 1) mod 4 and TurnRight to
\* (d + 1) mod 4, the direction stays in 0 .. 3, grid, agent position and
\* success_boxes_num are unchanged by a turn, and two TurnLeft followed by two
\* TurnRight restore the direction.
ThmC11_Turns ==
    /\ [](/\ agent_dir \in 0 .. 3
          /\ TurnRight(TurnRight(TurnLeft(TurnLeft(agent_dir)))) = agent_dir)
    /\ [][/\ Step(left) => agent_dir' = (agent_dir + 3) % 4
          /\ Step(right) => agent_dir' = (agent_dir + 1) % 4
          /\ Step(left) \/ Step(right) =>
                /\ ret'.raised = "none"
                /\ grid' = grid
                /\ agent_pos' = agent_pos
                /\ success_boxes_num' = success_boxes_num]_vars

\* a TurnLeft from direction 0 has wrapped around to direction 3
WitC11_LeftWrapped ==
    /\ ret.path = "turn"
    /\ ret.action = left
    /\ agent_dir = 3
    /\ step_count = 1

\* the agent faces a box and the cell beyond it holds a wall, another box or a
\* goal of another colour
FacingBoxBeforeObstacle ==
    /\ GridGet(grid, front_pos).type = "box"
    /\ InBounds(beyond_pos)
    /\ \/ GridGet(grid, beyond_pos).type \in {"wall", "box"}
       \/ /\ GridGet(grid, beyond_pos).type = "goal"
          /\ GridGet(grid, beyond_pos).color # GridGet(grid, front_pos).color

\* C12: MoveForward facing a box with a wall, another box or a goal of
\* another colour beyond it fails: box and agent stay and the grid is unchanged.
CexC12_PushFails ==
    [][(Step(forward) /\ FacingBoxBeforeObstacle) =>
         grid' = grid /\ agent_pos' = agent_pos]_vars

\* the cells of g other than those at the positions in ps are those of h
SameExcept(g, h, ps) ==
    \A k \in 1 .. width * height :
        k \in {Index(p) : p \in ps} \/ g[k] = h[k]

\* C13: MoveForward facing a box with an empty cell beyond it moves the box one
\* cell on, empties the cell it left, moves the agent into that cell and
\* changes no other cell, nor the direction, nor success_boxes_num; with an
\* empty cell or a goal in front the agent alone moves there.
ThmC13_PushAndWalk ==
    [][/\ (Step(forward) /\ GridGet(grid, front_pos).type = "box"
                          /\ InBounds(beyond_pos)
                          /\ GridGet(grid, beyond_pos) = None) =>
             /\ GridGet(grid', beyond_pos) = GridGet(grid, front_pos)
             /\ GridGet(grid', front_pos) = None
             /\ SameExcept(grid', grid, {front_pos, beyond_pos})
             /\ agent_pos' = front_pos
             /\ agent_dir' = agent_dir
             /\ success_boxes_num' = success_boxes_num
       /\ (Step(forward) /\ GridGet(grid, front_pos).type \in {"empty", "goal"}) =>
             /\ agent_pos' = front_pos
             /\ agent_dir' = agent_dir
             /\ grid' = grid]_vars

\* a box has been pushed on into an empty cell and the agent stands where it was
WitC13_BoxPushedOn ==
    /\ ret.path = "push"
    /\ GridGet(grid, front_pos).type = "box"
    /\ GridGet(grid, agent_pos) = None
    /\ success_boxes_num = 0
    /\ \A i \in 1 .. 4 : GridGet(grid, GoalPos[i]).type = "goal"

\* C14: once a step has returned terminated = True every later step before
\* the next reset returns terminated = True, and likewise for truncated.
CexC14_Sticky ==
    [][(StepReturned /\ ret'.call = "step" /\ ret'.raised = "none") =>
         /\ (ret.terminated => ret'.terminated)
         /\ (ret.truncated => ret'.truncated)]_vars

\* C15: no step returns terminated = True and truncated = True together.
CexC15_NotBoth == ~(StepReturned /\ ret.terminated /\ ret.truncated)

\* this step is no match event: it does not push a box onto a goal of its colour
NoMatchEvent == ~(ret'.action = forward /\ FacingBoxBeforeMatchingGoal)

\* C16: every step in which no match event occurs returns reward 0.
CexC16_NoMatchNoReward ==
    [][(ret'.call = "step" /\ ret'.raised = "none" /\ NoMatchEvent) =>
         ret'.reward = Rat(0, 1)]_vars

\* C16 as amended: a step that returns without a match event returns reward 0
\* unless it ends with success_boxes_num = required_boxes_num, and then 10.
ThmC16_NoMatchReward ==
    [][(ret'.call = "step" /\ ret'.raised = "none" /\ NoMatchEvent) =>
         ret'.reward = IF success_boxes_num' = required_boxes_num
                       THEN Rat(10, 1) ELSE Rat(0, 1)]_vars

\* after one match of the two required, a step without a match has returned 0
WitC16_ZeroAfterMatch ==
    /\ StepReturned
    /\ ret.path \in {"turn", "walk", "stay", "push", "blocked"}
    /\ success_boxes_num = 1
    /\ required_boxes_num = 2
    /\ every_box_step_count = 1
    /\ ret.reward = Rat(0, 1)

\* the boxes resting on the corner where reset put the goal of their colour
BoxesOnOwnGoal == {i \in 1 .. 4 : GridGet(grid, GoalPos[i]) = Box(color_box[i])}

\* C17: success_boxes_num is the number of boxes resting on a goal cell whose
\* goal colour, as assigned at reset, is the box's colour, in both modes.
ThmC17_SuccessCountsBoxesOnGoals ==
    success_boxes_num = Cardinality(BoxesOnOwnGoal)

\* in coloured mode a box rests on the corner of another colour, uncounted
WitC17_BoxOnOtherGoal ==
    /\ colored
    /\ success_boxes_num = 0
    /\ \E i \in 1 .. 4 :
          /\ GridGet(grid, GoalPos[i]).type = "box"
          /\ GridGet(grid, GoalPos[i]) # Box(color_box[i])

\* C18: a box pushed onto a goal cell stays in that cell through every later
\* step before the next reset.
ThmC18_BoxStaysOnGoal ==
    [][ret'.call = "step" =>
         \A i \in 1 .. 4 :
            GridGet(grid, GoalPos[i]).type = "box" =>
                GridGet(grid', GoalPos[i]) = GridGet(grid, GoalPos[i])]_vars

\* the agent has pushed against a box that rests on a goal cell, in vain
WitC18_PushedAgainstBoxOnGoal ==
    /\ ret.path = "blocked"
    /\ \E i \in 1 .. 4 : front_pos = GoalPos[i]
    /\ GridGet(grid, front_pos).type = "box"

\* C19: the agent position is inside the grid and its cell holds neither a
\* wall nor a box.
ThmC19_AgentOnFreeCell ==
    /\ InBounds(agent_pos)
    /\ GridGet(grid, agent_pos).type \in {"empty", "goal"}

\* the agent has walked onto a goal cell
WitC19_AgentOnGoal ==
    /\ ret.path = "walk"
    /\ GridGet(grid, agent_pos).type = "goal"

\* the number of steps after which an episode must have ended
EpisodeLimit == Max(1, max_steps * required_boxes_num)

\* C20: every step call adds exactly 1 to step_count, and every step that
\* returns with step_count at or past max_steps * required_boxes_num (so the
\* step numbered max(1, max_steps * required_boxes_num) at the latest) returns
\* terminated = True or truncated = True.
ThmC20_EpisodeEnds ==
    /\ [](StepReturned /\ step_count >= EpisodeLimit =>
             ret.terminated \/ ret.truncated)
    /\ [][ret'.call = "step" => step_count' = step_count + 1]_vars

\* the step numbered max_steps * required_boxes_num has ended an episode whose
\* earlier steps had not
WitC20_EndedAtLimit ==
    /\ StepReturned
    /\ max_steps = MaxMaxSteps
    /\ required_boxes_num = 1
    /\ step_count = EpisodeLimit
    /\ success_boxes_num = 0
    /\ ret.truncated

====
